---- MODULE Spec2Model ----
(***************************************************************************)
(* B+Tree internal page (cmudb::BPlusTreeInternalPage) of                  *)
(* src/page/b_plus_tree_internal_page.cpp.                                 *)
(*                                                                         *)
(* Three internal pages are modelled: a parent and its two children, the   *)
(* left and the right sibling.  Every page is the header fields the code   *)
(* uses (size, parent page id) and the slot array of (first, second)       *)
(* pairs, stale slots beyond size included.  A behaviour is one call of    *)
(* one method of the class on a well-formed configuration: the state       *)
(* before the call is kept in pre, the call in call, how it ended in       *)
(* status and what it returned in ret.                                     *)
(***************************************************************************)
EXTENDS Integers, Sequences, FiniteSets

(* ---- bounds ---- *)
MaxSize == 5
NumKeys == 5

(* ---- page ids ---- *)
INVALID_PAGE_ID == -1
ParentPage == 1
LeftPage == ParentPage + 1
RightPage == LeftPage + 1

InternalPages == {ParentPage, LeftPage, RightPage}
Siblings == {LeftPage, RightPage}

\* The slot array of a page holds max_size slots: indices 0..max_size-1.
Slots == 0 .. (MaxSize - 1)

\* The child page held at slot i of sibling p in the initial configuration.
ChildId(p, i) == RightPage + 1 + (IF p = LeftPage THEN 0 ELSE MaxSize) + i
\* The id of a page allocated after the initial configuration was built.
NewPageId == ChildId(RightPage, MaxSize)
\* Page id 0 is what zeroed page memory reads as.
PageIds == 0 .. NewPageId

Keys == 1 .. NumKeys
\* Search keys: below, between and above all keys stored.
SearchKeys == 0 .. (NumKeys + 1)

ZeroSlot == [first |-> 0, second |-> 0]
\* Neither a page id nor a size nor a key: nothing returned, no argument.
NoRet == INVALID_PAGE_ID - 1
NoArg == NoRet

(* ---- the state of the pages, as a record the methods transform ---- *)
\* status: "ok" while the call runs and when it returned normally;
\* "assert" when an assert() aborted the process; "exception" when an
\* Exception was thrown; "segv"/"ub" when a null pointer was dereferenced;
\* "oob" when a slot outside the page's slot array was written.
Running(s) == s.status = "ok"

GetSize(s, p) == s.size[p]
GetMaxSize(s, p) == MaxSize
GetPageId(s, p) == p
GetParentPageId(s, p) == s.parent_page_id[p]
IncreaseSize(s, p, amount) == [s EXCEPT !.size[p] = @ + amount]
AssertFail(s) == [s EXCEPT !.status = "assert"]

\* comparator(a, b): three-way comparison of two keys
comparator(a, b) == IF a < b THEN -1 ELSE IF a > b THEN 1 ELSE 0

(* ---- buffer pool manager ---- *)
\* FetchPage pins the page and returns it, or returns null when no frame is
\* free or the page does not exist.
FetchHit(s, page_id, avail) == avail /\ page_id \in PageIds
FetchPage(s, page_id) == [s EXCEPT !.pin_count[page_id] = @ + 1]
UnpinPage(s, page_id) ==
    IF s.pin_count[page_id] > 0
    THEN [s EXCEPT !.pin_count[page_id] = @ - 1]
    ELSE s
\* What dereferencing a null Page pointer does to the process.
NullDerefOutcomes == {"segv", "ub"}
NullDeref(s, nd) == [s EXCEPT !.status = nd]

(* ---- accessors ---- *)
KeyAt(s, p, index) ==
    IF ~(0 <= index /\ index < GetSize(s, p)) THEN AssertFail(s)
    ELSE [s EXCEPT !.ret = s.array[p][index].first]

SetKeyAt(s, p, index, key) ==
    IF ~(0 <= index /\ index < GetSize(s, p)) THEN AssertFail(s)
    ELSE [s EXCEPT !.array[p][index].first = key]

RECURSIVE ValueIndexLoop(_, _, _, _)
ValueIndexLoop(s, p, value, i) ==
    IF i < GetSize(s, p)
    THEN IF s.array[p][i].second = value THEN i
         ELSE ValueIndexLoop(s, p, value, i + 1)
    ELSE GetSize(s, p)

ValueIndex(s, p, value) == ValueIndexLoop(s, p, value, 0)

ValueAt(s, p, index) ==
    IF ~(0 <= index /\ index < GetSize(s, p)) THEN AssertFail(s)
    ELSE [s EXCEPT !.ret = s.array[p][index].second]

(* ---- Lookup ---- *)
RECURSIVE LookupLoop(_, _, _, _, _)
LookupLoop(s, p, key, low, high) ==
    IF low < high /\ low + 1 # high
    THEN LET mid == low + ((high - low) \div 2) IN
         IF comparator(key, s.array[p][mid].first) < 0
         THEN LookupLoop(s, p, key, low, mid)
         ELSE IF comparator(key, s.array[p][mid].first) > 0
         THEN LookupLoop(s, p, key, mid, high)
         ELSE s.array[p][mid].second
    ELSE s.array[p][low].second

\* Lookup with the last key compared by > instead of >=.
Lookup_LastKeyExclusive(s, p, key) ==
    IF ~(GetSize(s, p) > 1) THEN AssertFail(s)
    ELSE IF comparator(key, s.array[p][1].first) < 0
    THEN [s EXCEPT !.ret = s.array[p][0].second]
    ELSE IF comparator(key, s.array[p][GetSize(s, p) - 1].first) > 0
    THEN [s EXCEPT !.ret = s.array[p][GetSize(s, p) - 1].second]
    ELSE [s EXCEPT !.ret = LookupLoop(s, p, key, 1, GetSize(s, p) - 1)]

Lookup(s, p, key) ==
    IF ~(GetSize(s, p) > 1) THEN AssertFail(s)
    ELSE IF comparator(key, s.array[p][1].first) < 0
    THEN [s EXCEPT !.ret = s.array[p][0].second]
    ELSE IF comparator(key, s.array[p][GetSize(s, p) - 1].first) >= 0
    THEN [s EXCEPT !.ret = s.array[p][GetSize(s, p) - 1].second]
    ELSE [s EXCEPT !.ret = LookupLoop(s, p, key, 1, GetSize(s, p) - 1)]

\* The sequential scan of the comment above Lookup.
RECURSIVE SequentialScan(_, _, _, _, _)
SequentialScan(s, p, key, i, dir) ==
    IF i < GetSize(s, p)
    THEN IF comparator(key, s.array[p][i].first) < 0 THEN dir
         ELSE SequentialScan(s, p, key, i + 1, s.array[p][i].second)
    ELSE dir

(* ---- insertion ---- *)
\* PopulateNewRoot that leaves the child of slot 0 as it was.
PopulateNewRoot_KeepsFirstChild(s, p, old_value, new_key, new_value) ==
    IF ~(GetSize(s, p) = 1) THEN AssertFail(s)
    ELSE IncreaseSize(
           [s EXCEPT !.array[p][1] = [first |-> new_key, second |-> new_value]],
           p, 1)

PopulateNewRoot(s, p, old_value, new_key, new_value) ==
    IF ~(GetSize(s, p) = 1) THEN AssertFail(s)
    ELSE IncreaseSize(
           [s EXCEPT !.array[p][0].second = old_value,
                     !.array[p][1] = [first |-> new_key, second |-> new_value]],
           p, 1)

\* array[i] = slot; a write past the last slot of the page leaves the page's
\* slots as they are and is remembered in status.
WriteSlot(s, p, i, slot) ==
    IF i \in Slots THEN [s EXCEPT !.array[p][i] = slot]
    ELSE [s EXCEPT !.status = "oob"]

\* InsertNodeAfter's loop without the shift of the slots it passes.
RECURSIVE InsertNodeAfterLoop_NoShift(_, _, _, _, _, _)
InsertNodeAfterLoop_NoShift(s, p, old_value, new_key, new_value, i) ==
    IF i > 0
    THEN IF s.array[p][i - 1].second = old_value
         THEN IncreaseSize(
                WriteSlot(s, p, i, [first |-> new_key, second |-> new_value]),
                p, 1)
         ELSE InsertNodeAfterLoop_NoShift(s, p, old_value, new_key, new_value,
                                          i - 1)
    ELSE s

RECURSIVE InsertNodeAfterLoop(_, _, _, _, _, _)
InsertNodeAfterLoop(s, p, old_value, new_key, new_value, i) ==
    IF i > 0
    THEN IF s.array[p][i - 1].second = old_value
         THEN IncreaseSize(
                WriteSlot(s, p, i, [first |-> new_key, second |-> new_value]),
                p, 1)
         ELSE InsertNodeAfterLoop(WriteSlot(s, p, i, s.array[p][i - 1]),
                                  p, old_value, new_key, new_value, i - 1)
    ELSE s

\* InsertNodeAfter starting its search one slot too low.
InsertNodeAfter_FromLastSlot(s, p, old_value, new_key, new_value) ==
    LET t == InsertNodeAfterLoop(s, p, old_value, new_key, new_value,
                                 GetSize(s, p) - 1)
    IN  [t EXCEPT !.ret = GetSize(t, p)]

InsertNodeAfter(s, p, old_value, new_key, new_value) ==
    LET t == InsertNodeAfterLoop(s, p, old_value, new_key, new_value,
                                 GetSize(s, p))
    IN  [t EXCEPT !.ret = GetSize(t, p)]

(* ---- split ---- *)
\* items is the address of slot off of page src
RECURSIVE CopyHalfFromLoop(_, _, _, _, _, _)
CopyHalfFromLoop(s, p, src, off, size, i) ==
    IF i < size
    THEN CopyHalfFromLoop([s EXCEPT !.array[p][i] = s.array[src][off + i]],
                          p, src, off, size, i + 1)
    ELSE s

CopyHalfFrom(s, p, src, off, size) ==
    IF ~(GetSize(s, p) = 1) THEN AssertFail(s)
    ELSE IncreaseSize(CopyHalfFromLoop(s, p, src, off, size, 0), p, size)

\* MoveHalfTo handing over the slots from index half on instead of the last
\* half slots.
MoveHalfTo_FromHalf(s, p, recipient) ==
    LET half == GetSize(s, p) \div 2
        t == CopyHalfFrom(s, recipient, p, half, half)
    IN  IF ~Running(t) THEN t
        ELSE IncreaseSize(t, p, (-1) * half)

MoveHalfTo(s, p, recipient) ==
    LET half == GetSize(s, p) \div 2
        t == CopyHalfFrom(s, recipient, p, GetSize(s, p) - half, half)
    IN  IF ~Running(t) THEN t
        ELSE IncreaseSize(t, p, (-1) * half)

(* ---- remove ---- *)
RECURSIVE RemoveLoop(_, _, _, _)
RemoveLoop(s, p, index, i) ==
    IF i < GetSize(s, p) - 1
    THEN RemoveLoop([s EXCEPT !.array[p][index] = s.array[p][index + 1]],
                    p, index, i + 1)
    ELSE s

\* Remove whose assertion lets index = size through.
Remove_IndexUpToSize(s, p, index) ==
    IF ~(0 <= index /\ index <= GetSize(s, p)) THEN AssertFail(s)
    ELSE IncreaseSize(RemoveLoop(s, p, index, index), p, -1)

Remove(s, p, index) ==
    IF ~(0 <= index /\ index < GetSize(s, p)) THEN AssertFail(s)
    ELSE IncreaseSize(RemoveLoop(s, p, index, index), p, -1)

RemoveAndReturnOnlyChild(s, p) ==
    LET t == IncreaseSize(s, p, -1) IN
    IF ~(GetSize(t, p) = 1) THEN AssertFail(t)
    ELSE ValueAt(t, p, 0)

(* ---- merge ---- *)
RECURSIVE CopyAllFromLoop(_, _, _, _, _, _, _)
CopyAllFromLoop(s, p, src, off, size, i, n) ==
    IF i < size
    THEN CopyAllFromLoop([s EXCEPT !.array[p][i] = s.array[src][off + n]],
                         p, src, off, size, i + 1, n + 1)
    ELSE s

CopyAllFrom(s, p, src, off, size) ==
    IF ~(GetSize(s, p) + size < GetMaxSize(s, p)) THEN AssertFail(s)
    ELSE IncreaseSize(
           CopyAllFromLoop(s, p, src, off, size, GetSize(s, p), 0), p, size)

\* avail: whether the buffer pool has a frame for the parent; nd: what the
\* dereference of a null parent does.
MoveAllTo(s, p, recipient, index_in_parent, avail, nd) ==
    LET t == CopyAllFrom(s, recipient, p, 1, GetSize(s, p) - 1)
        parent == GetParentPageId(t, p)
    IN  IF ~Running(t) THEN t
        ELSE IF ~FetchHit(t, parent, avail) THEN NullDeref(t, nd)
        ELSE LET u == Remove(FetchPage(t, parent), parent, index_in_parent)
             IN  IF ~Running(u) THEN u
                 ELSE UnpinPage(u, GetPageId(u, parent))

(* ---- redistribute ---- *)
\* CopyLastFrom writing the new separator at the recipient's own slot of the
\* parent instead of the slot after it.
CopyLastFrom_KeyAtIndex(s, p, pair, avail, nd) ==
    LET parent == GetParentPageId(s, p) IN
    IF ~(GetSize(s, p) + 1 < GetMaxSize(s, p)) THEN AssertFail(s)
    ELSE IF ~FetchHit(s, parent, avail) THEN NullDeref(s, nd)
    ELSE LET t == FetchPage(s, parent)
             index == ValueIndex(t, parent, GetPageId(t, p))
             k == KeyAt(t, parent, index + 1)
         IN  IF ~Running(k) THEN k
             ELSE LET u == IncreaseSize(
                             [t EXCEPT !.array[p][GetSize(t, p)] =
                                 [first |-> k.ret, second |-> pair.second]],
                             p, 1)
                      v == SetKeyAt(u, parent, index, pair.first)
                  IN  IF ~Running(v) THEN v
                      ELSE UnpinPage(v, GetPageId(v, parent))

CopyLastFrom(s, p, pair, avail, nd) ==
    LET parent == GetParentPageId(s, p) IN
    IF ~(GetSize(s, p) + 1 < GetMaxSize(s, p)) THEN AssertFail(s)
    ELSE IF ~FetchHit(s, parent, avail) THEN NullDeref(s, nd)
    ELSE LET t == FetchPage(s, parent)
             index == ValueIndex(t, parent, GetPageId(t, p))
             k == KeyAt(t, parent, index + 1)
         IN  IF ~Running(k) THEN k
             ELSE LET u == IncreaseSize(
                             [t EXCEPT !.array[p][GetSize(t, p)] =
                                 [first |-> k.ret, second |-> pair.second]],
                             p, 1)
                      v == SetKeyAt(u, parent, index + 1, pair.first)
                  IN  IF ~Running(v) THEN v
                      ELSE UnpinPage(v, GetPageId(v, parent))

MoveFirstToEndOf(s, p, recipient, avail, nd) ==
    IF ~(GetSize(s, p) > 1) THEN AssertFail(s)
    ELSE LET pair == s.array[p][1]
             t == Remove([s EXCEPT !.array[p][0] = s.array[p][1]], p, 1)
         IN  IF ~Running(t) THEN t
             ELSE CopyLastFrom(t, recipient, pair, avail, nd)

CopyFirstFrom(s, p, pair, parent_index, avail, nd) ==
    LET parent == GetParentPageId(s, p) IN
    IF ~(GetSize(s, p) + 1 < GetMaxSize(s, p)) THEN AssertFail(s)
    ELSE IF ~FetchHit(s, parent, avail) THEN NullDeref(s, nd)
    ELSE LET t == FetchPage(s, parent)
             k == KeyAt(t, parent, parent_index)
         IN  IF ~Running(k) THEN k
             ELSE LET u == SetKeyAt(t, parent, parent_index, pair.first)
                      v == IF ~Running(u) THEN u
                           ELSE InsertNodeAfter(u, p, u.array[p][0].second,
                                                k.ret, u.array[p][0].second)
                  IN  IF ~Running(v) THEN v
                      ELSE UnpinPage(
                             [v EXCEPT !.array[p][0].second = pair.second,
                                       !.ret = NoRet],
                             GetPageId(v, parent))

\* MoveLastToFrontOf reading the pair at the old size, one past the last
\* slot, instead of at the decremented size.
MoveLastToFrontOf_PairPastEnd(s, p, recipient, parent_index, avail, nd) ==
    IF ~(GetSize(s, p) > 1) THEN AssertFail(s)
    ELSE LET t == IncreaseSize(s, p, -1)
             pair == IF GetSize(s, p) \in Slots THEN s.array[p][GetSize(s, p)]
                     ELSE ZeroSlot
         IN  CopyFirstFrom(t, recipient, pair, parent_index, avail, nd)

MoveLastToFrontOf(s, p, recipient, parent_index, avail, nd) ==
    IF ~(GetSize(s, p) > 1) THEN AssertFail(s)
    ELSE LET t == IncreaseSize(s, p, -1)
             pair == t.array[p][GetSize(t, p)]
         IN  CopyFirstFrom(t, recipient, pair, parent_index, avail, nd)

(* ---- debug ---- *)
\* hits: the number of fetches the buffer pool can serve before it has no
\* free frame left.
RECURSIVE QueueUpChildrenLoop(_, _, _, _)
QueueUpChildrenLoop(s, p, i, hits) ==
    IF i < GetSize(s, p)
    THEN LET child == s.array[p][i].second IN
         IF ~FetchHit(s, child, i < hits)
         THEN [s EXCEPT !.status = "exception"]
         ELSE QueueUpChildrenLoop(
                [FetchPage(s, child) EXCEPT !.queue = Append(@, child)],
                p, i + 1, hits)
    ELSE s

QueueUpChildren(s, p, hits) == QueueUpChildrenLoop(s, p, 0, hits)

(* ---- state ---- *)
VARIABLES
    size,            \* size[p]: the size field of internal page p
    array,           \* array[p][i]: slot i of internal page p
    parent_page_id,  \* parent_page_id[id]: the parent field of page id
    pin_count,       \* pin_count[id]: the buffer pool's pin count of page id
    queue,           \* the queue QueueUpChildren pushes to
    status,          \* "ready" before the call, then how the call ended
    ret,             \* the value the call returned
    call,            \* the call made: method and arguments
    pre,             \* the pages as they were when the call was made
    built            \* the (key, child) pairs a page was built from, in order

vars == <<size, array, parent_page_id, pin_count, queue, status, ret, call, pre,
          built>>

Indexes == -1 .. MaxSize
ArgValues == {LeftPage, NewPageId}

NoCall == [name |-> "none", this |-> NoArg, recipient |-> NoArg,
           index |-> NoArg, key |-> NoArg, value |-> NoArg,
           old_value |-> NoArg, avail |-> TRUE, hits |-> NoArg]

\* The strictly increasing key sequences of length n.
IncreasingKeys(n) ==
    {ks \in [1 .. n -> Keys] : \A i \in 1 .. n, j \in 1 .. n : i < j => ks[i] < ks[j]}

\* A sibling holding n slots: the sentinel and the keys ks, one child each.
SiblingArray(p, n, ks) ==
    [i \in Slots |->
        IF i < n
        THEN [first |-> IF i = 0 THEN 0 ELSE ks[i], second |-> ChildId(p, i)]
        ELSE ZeroSlot]

\* A page right after Init() on zeroed page memory.
FreshArray == [i \in Slots |-> ZeroSlot]

ParentArray(sep) ==
    [i \in Slots |->
        IF i = 0 THEN [first |-> 0, second |-> LeftPage]
        ELSE IF i = 1 THEN [first |-> sep, second |-> RightPage]
        ELSE ZeroSlot]

InitialParent(id, nl, nr, fresh) ==
    IF id \in Siblings THEN ParentPage
    ELSE IF \E i \in 0 .. (nl - 1) : id = ChildId(LeftPage, i) THEN LeftPage
    ELSE IF ~fresh /\ \E i \in 0 .. (nr - 1) : id = ChildId(RightPage, i)
    THEN RightPage
    ELSE INVALID_PAGE_ID

Snapshot == [size |-> size, array |-> array,
             parent_page_id |-> parent_page_id, pin_count |-> pin_count]

Init ==
    \E nl \in 1 .. MaxSize, nr \in 1 .. MaxSize, sep \in Keys, fresh \in BOOLEAN :
    \E kl \in IncreasingKeys(nl - 1), kr \in IncreasingKeys(nr - 1) :
        /\ fresh => nr = 1
        \* the subtree left of the separator holds smaller keys, the subtree
        \* right of it larger ones
        /\ \A i \in 1 .. (nl - 1) : kl[i] < sep
        /\ \A i \in 1 .. (nr - 1) : sep < kr[i]
        /\ size = [p \in InternalPages |->
                      IF p = ParentPage THEN 2
                      ELSE IF p = LeftPage THEN nl ELSE nr]
        /\ array = [p \in InternalPages |->
                      IF p = ParentPage THEN ParentArray(sep)
                      ELSE IF p = LeftPage THEN SiblingArray(p, nl, kl)
                      ELSE IF fresh THEN FreshArray
                      ELSE SiblingArray(p, nr, kr)]
        /\ parent_page_id = [id \in PageIds |-> InitialParent(id, nl, nr, fresh)]
        /\ pin_count = [id \in PageIds |-> 0]
        /\ queue = <<>>
        /\ status = "ready"
        /\ ret = NoRet
        /\ call = NoCall
        /\ pre = [size |-> size, array |-> array,
                  parent_page_id |-> parent_page_id, pin_count |-> pin_count]
        /\ built = <<>>

\* The pages as the call finds them.
Cur == [size |-> size, array |-> array, parent_page_id |-> parent_page_id,
        pin_count |-> pin_count, queue |-> queue, status |-> "ok",
        ret |-> NoRet]

\* The call c ran on the pages and left them as r.
Return(r, c) ==
    /\ status = "ready"
    /\ size' = r.size
    /\ array' = r.array
    /\ parent_page_id' = r.parent_page_id
    /\ pin_count' = r.pin_count
    /\ queue' = r.queue
    /\ status' = r.status
    /\ ret' = r.ret
    /\ call' = c
    /\ pre' = Snapshot
    /\ built' = built

(* ---- one action per method ---- *)
KeyAtCall ==
    \E p \in InternalPages, index \in Indexes :
        Return(KeyAt(Cur, p, index),
               [NoCall EXCEPT !.name = "KeyAt", !.this = p, !.index = index])

SetKeyAtCall ==
    \E p \in InternalPages, index \in Indexes, key \in Keys :
        Return(SetKeyAt(Cur, p, index, key),
               [NoCall EXCEPT !.name = "SetKeyAt", !.this = p,
                              !.index = index, !.key = key])

ValueIndexCall ==
    \E p \in InternalPages, value \in PageIds :
        Return([Cur EXCEPT !.ret = ValueIndex(Cur, p, value)],
               [NoCall EXCEPT !.name = "ValueIndex", !.this = p,
                              !.value = value])

ValueAtCall ==
    \E p \in InternalPages, index \in Indexes :
        Return(ValueAt(Cur, p, index),
               [NoCall EXCEPT !.name = "ValueAt", !.this = p, !.index = index])

LookupCall ==
    \E p \in InternalPages, key \in SearchKeys :
        Return(Lookup(Cur, p, key),
               [NoCall EXCEPT !.name = "Lookup", !.this = p, !.key = key])

PopulateNewRootCall ==
    \E p \in InternalPages, old_value \in ArgValues, new_key \in Keys,
       new_value \in ArgValues :
        Return(PopulateNewRoot(Cur, p, old_value, new_key, new_value),
               [NoCall EXCEPT !.name = "PopulateNewRoot", !.this = p,
                              !.old_value = old_value, !.key = new_key,
                              !.value = new_value])

InsertNodeAfterCall ==
    \E p \in InternalPages, old_value \in PageIds, new_key \in Keys,
       new_value \in ArgValues :
        Return(InsertNodeAfter(Cur, p, old_value, new_key, new_value),
               [NoCall EXCEPT !.name = "InsertNodeAfter", !.this = p,
                              !.old_value = old_value, !.key = new_key,
                              !.value = new_value])

MoveHalfToCall ==
    \E p \in Siblings : \E recipient \in Siblings \ {p} :
        Return(MoveHalfTo(Cur, p, recipient),
               [NoCall EXCEPT !.name = "MoveHalfTo", !.this = p,
                              !.recipient = recipient])

RemoveCall ==
    \E p \in InternalPages, index \in Indexes :
        Return(Remove(Cur, p, index),
               [NoCall EXCEPT !.name = "Remove", !.this = p, !.index = index])

RemoveAndReturnOnlyChildCall ==
    \E p \in InternalPages :
        Return(RemoveAndReturnOnlyChild(Cur, p),
               [NoCall EXCEPT !.name = "RemoveAndReturnOnlyChild", !.this = p])

MoveAllToCall ==
    \E p \in Siblings : \E recipient \in Siblings \ {p}, index \in Indexes,
       avail \in BOOLEAN, nd \in NullDerefOutcomes :
        Return(MoveAllTo(Cur, p, recipient, index, avail, nd),
               [NoCall EXCEPT !.name = "MoveAllTo", !.this = p,
                              !.recipient = recipient, !.index = index,
                              !.avail = avail])

MoveFirstToEndOfCall ==
    \E p \in Siblings : \E recipient \in Siblings \ {p},
       avail \in BOOLEAN, nd \in NullDerefOutcomes :
        Return(MoveFirstToEndOf(Cur, p, recipient, avail, nd),
               [NoCall EXCEPT !.name = "MoveFirstToEndOf", !.this = p,
                              !.recipient = recipient, !.avail = avail])

MoveLastToFrontOfCall ==
    \E p \in Siblings : \E recipient \in Siblings \ {p}, index \in Indexes,
       avail \in BOOLEAN, nd \in NullDerefOutcomes :
        Return(MoveLastToFrontOf(Cur, p, recipient, index, avail, nd),
               [NoCall EXCEPT !.name = "MoveLastToFrontOf", !.this = p,
                              !.recipient = recipient, !.index = index,
                              !.avail = avail])

QueueUpChildrenCall ==
    \E p \in InternalPages, hits \in 0 .. MaxSize :
        Return(QueueUpChildren(Cur, p, hits),
               [NoCall EXCEPT !.name = "QueueUpChildren", !.this = p,
                              !.hits = hits])

Next ==
    \/ KeyAtCall
    \/ SetKeyAtCall
    \/ ValueIndexCall
    \/ ValueAtCall
    \/ LookupCall
    \/ PopulateNewRootCall
    \/ InsertNodeAfterCall
    \/ MoveHalfToCall
    \/ RemoveCall
    \/ RemoveAndReturnOnlyChildCall
    \/ MoveAllToCall
    \/ MoveFirstToEndOfCall
    \/ MoveLastToFrontOfCall
    \/ QueueUpChildrenCall

Spec == Init /\ [][Next]_vars

(* ---- building a page: PopulateNewRoot, then InsertNodeAfter at the end ---- *)
\* Three pages right after Init(): size 1, zeroed slots, no parent yet.
InitBuild ==
    /\ size = [p \in InternalPages |-> 1]
    /\ array = [p \in InternalPages |-> FreshArray]
    /\ parent_page_id = [id \in PageIds |-> INVALID_PAGE_ID]
    /\ pin_count = [id \in PageIds |-> 0]
    /\ queue = <<>>
    /\ status = "ready"
    /\ ret = NoRet
    /\ call = NoCall
    /\ pre = [size |-> size, array |-> array,
              parent_page_id |-> parent_page_id, pin_count |-> pin_count]
    /\ built = <<>>

\* The call c ran on the pages, left them as r and inserted pair; the page
\* is ready for the next call when c returned normally.
BuildStep(r, c, pair) ==
    /\ status = "ready"
    /\ size' = r.size
    /\ array' = r.array
    /\ parent_page_id' = r.parent_page_id
    /\ pin_count' = r.pin_count
    /\ queue' = r.queue
    /\ status' = IF r.status = "ok" THEN "ready" ELSE r.status
    /\ ret' = r.ret
    /\ call' = c
    /\ pre' = Snapshot
    /\ built' = Append(built, pair)

BuildPopulateNewRoot ==
    /\ built = <<>>
    /\ \E old_value \in ArgValues, new_key \in Keys, new_value \in ArgValues :
          BuildStep(PopulateNewRoot(Cur, ParentPage, old_value, new_key,
                                    new_value),
                    [NoCall EXCEPT !.name = "PopulateNewRoot",
                                   !.this = ParentPage,
                                   !.old_value = old_value, !.key = new_key,
                                   !.value = new_value],
                    [first |-> new_key, second |-> new_value])

\* InsertNodeAfter of a key larger than all keys of the page, after the child
\* of its last slot, while the page has room.
BuildInsertNodeAfter ==
    /\ built # <<>>
    /\ size[ParentPage] < MaxSize
    /\ \E new_key \in Keys, new_value \in ArgValues :
          LET old_value == array[ParentPage][size[ParentPage] - 1].second IN
          /\ \A i \in 1 .. (size[ParentPage] - 1) :
                array[ParentPage][i].first < new_key
          /\ BuildStep(InsertNodeAfter(Cur, ParentPage, old_value, new_key,
                                       new_value),
                       [NoCall EXCEPT !.name = "InsertNodeAfter",
                                      !.this = ParentPage,
                                      !.old_value = old_value,
                                      !.key = new_key, !.value = new_value],
                       [first |-> new_key, second |-> new_value])

NextBuild ==
    \/ BuildPopulateNewRoot
    \/ BuildInsertNodeAfter
    \/ LookupCall

SpecBuild == InitBuild /\ [][NextBuild]_vars

TypeOK ==
    /\ size \in [InternalPages -> 0 .. (MaxSize + 1)]
    /\ \A p \in InternalPages : DOMAIN array[p] = Slots
    /\ status \in {"ready", "ok", "assert", "exception", "segv", "ub", "oob"}

(* ---- properties ---- *)
Returned(name) == call.name = name /\ status = "ok"

\* The keys at slots 1..size-1 of page p were strictly increasing.
PreSorted(p) ==
    \A i \in 1 .. (pre.size[p] - 1), j \in 1 .. (pre.size[p] - 1) :
        i < j => pre.array[p][i].first < pre.array[p][j].first

\* The slot Lookup has to answer from: slot 0 when key is below the first
\* key, otherwise the largest slot whose key is not above key.
DirectingSlot(p, key) ==
    IF key < pre.array[p][1].first THEN 0
    ELSE CHOOSE i \in 1 .. (pre.size[p] - 1) :
            /\ pre.array[p][i].first <= key
            /\ \A j \in 1 .. (pre.size[p] - 1) :
                  pre.array[p][j].first <= key => j <= i

\* C1: on a page of size > 1 with strictly increasing keys, Lookup(k)
\* returns slot 0's child when k is below the key of slot 1 and otherwise
\* the child of the largest slot whose key is <= k, which is also what the
\* sequential scan over slots 1..size-1 returns.
C1_LookupContract ==
    (call.name = "Lookup" /\ pre.size[call.this] > 1 /\ PreSorted(call.this))
    => /\ status = "ok"
       /\ ret = pre.array[call.this][DirectingSlot(call.this, call.key)].second
       /\ ret = SequentialScan(pre, call.this,
                               call.key, 1, pre.array[call.this][0].second)

\* A Lookup that had to search between the first and the last key of a page
\* holding at least four keys.
C1_Witness ==
    /\ Returned("Lookup")
    /\ pre.size[call.this] >= 5
    /\ PreSorted(call.this)
    /\ DirectingSlot(call.this, call.key) \in 2 .. (pre.size[call.this] - 2)

\* C2 (as claimed): Remove(index) with 0 <= index < size leaves slots
\* 0..index-1 unchanged, makes every new slot i in index..size-2 the old
\* slot i+1, and decreases size by one.
C2_RemoveShiftsLeft ==
    (call.name = "Remove" /\ 0 <= call.index
        /\ call.index < pre.size[call.this])
    => /\ status = "ok"
       /\ size[call.this] = pre.size[call.this] - 1
       /\ \A i \in 0 .. (call.index - 1) :
             array[call.this][i] = pre.array[call.this][i]
       /\ \A i \in call.index .. (pre.size[call.this] - 2) :
             array[call.this][i] = pre.array[call.this][i + 1]

\* C3 (as claimed): MoveHalfTo on a page of size s with a freshly
\* initialised recipient leaves the donor with s - s/2 slots and the
\* recipient with the s/2 moved slots, s slots together.
C3_MoveHalfConservesCount ==
    (Returned("MoveHalfTo") /\ pre.size[call.recipient] = 1)
    => LET s == pre.size[call.this] IN
       /\ size[call.this] = s - (s \div 2)
       /\ size[call.recipient] = s \div 2
       /\ size[call.this] + size[call.recipient] = s

\* C4: after MoveHalfTo on a page of size s the recipient's slots
\* 0..s/2-1 are the donor's former slots s-s/2..s-1 in order, whole pairs,
\* and the donor's slots 0..s-s/2-1 are unchanged.
C4_MoveHalfMovesUpperHalf ==
    Returned("MoveHalfTo")
    => LET s == pre.size[call.this]
           half == s \div 2
       IN  /\ \A i \in 0 .. (half - 1) :
                 array[call.recipient][i] = pre.array[call.this][s - half + i]
           /\ \A i \in 0 .. (s - half - 1) :
                 array[call.this][i] = pre.array[call.this][i]

\* A split of a page of odd size with at least two slots moved.
C4_Witness ==
    /\ Returned("MoveHalfTo")
    /\ pre.size[call.this] >= 5
    /\ array[call.recipient][0].first = pre.array[call.this][3].first
    /\ array[call.recipient][0].first > 0

\* C5 (as claimed): MoveAllTo on a page of size s into the left-hand
\* recipient of size r leaves the recipient with r + (s-1) slots, its slots
\* 0..r-1 unchanged and its slots r..r+s-2 the source's slots 1..s-1.
C5_MoveAllAppends ==
    (Returned("MoveAllTo") /\ call.this = RightPage
        /\ call.recipient = LeftPage)
    => LET s == pre.size[call.this]
           r == pre.size[call.recipient]
       IN  /\ size[call.recipient] = r + (s - 1)
           /\ \A i \in 0 .. (r - 1) :
                 array[call.recipient][i] = pre.array[call.recipient][i]
           /\ \A i \in 1 .. (s - 1) :
                 array[call.recipient][r + i - 1] = pre.array[call.this][i]

\* The slots of page p that held old_value as their child before the call.
SlotsOfChild(p, value) ==
    {j \in 0 .. (pre.size[p] - 1) : pre.array[p][j].second = value}

\* C6: when after_child is the child of exactly one slot j, a call
\* InsertNodeAfter(after_child, k, v) that stays within the slot array
\* leaves slots 0..j unchanged, puts (k, v) at slot j+1, moves every former
\* slot i > j to i+1, increases size by one and returns the new size.
C6_InsertNodeAfterContract ==
    (Returned("InsertNodeAfter")
        /\ Cardinality(SlotsOfChild(call.this, call.old_value)) = 1)
    => LET p == call.this
           j == CHOOSE j \in SlotsOfChild(p, call.old_value) : TRUE
       IN  /\ \A i \in 0 .. j : array[p][i] = pre.array[p][i]
           /\ array[p][j + 1] = [first |-> call.key, second |-> call.value]
           /\ \A i \in (j + 1) .. (pre.size[p] - 1) :
                 array[p][i + 1] = pre.array[p][i]
           /\ size[p] = pre.size[p] + 1
           /\ ret = size[p]

\* An insertion in the middle of a page: slots before and after it.
C6_Witness ==
    /\ Returned("InsertNodeAfter")
    /\ pre.size[call.this] >= 4
    /\ SlotsOfChild(call.this, call.old_value) = {1}
    /\ array[call.this][2].second = call.value

\* C7 (as claimed): when after_child is the child of no slot of the page,
\* InsertNodeAfter does not return normally and leaves the slot array alone.
C7_InsertNodeAfterRejectsUnknownChild ==
    (call.name = "InsertNodeAfter"
        /\ SlotsOfChild(call.this, call.old_value) = {})
    => /\ status # "ok"
       /\ \A i \in 0 .. (pre.size[call.this] - 1) :
             array[call.this][i] = pre.array[call.this][i]

\* C8 (as claimed): an operation that returns to its caller, normally or by
\* an exception, leaves every pin count as it found it.
C8_PinsBalanced ==
    (call.name \in {"MoveAllTo", "MoveFirstToEndOf", "MoveLastToFrontOf",
                    "QueueUpChildren"}
        /\ status \in {"ok", "exception"})
    => pin_count = pre.pin_count

\* C9 (as claimed): no operation reads or writes through a null fetch
\* result; a null fetch result ends the operation with an exception.
C9_NullFetchIsException ==
    call.name \in {"MoveAllTo", "MoveFirstToEndOf", "MoveLastToFrontOf",
                   "QueueUpChildren"}
    => status \notin NullDerefOutcomes

\* The children page p holds in slots 0..size-1, now and before the call.
ChildrenOf(p) == {array[p][i].second : i \in 0 .. (size[p] - 1)}
PreChildrenOf(p) == {pre.array[p][i].second : i \in 0 .. (pre.size[p] - 1)}

\* C10 (as claimed): after MoveHalfTo, MoveAllTo, MoveFirstToEndOf or
\* MoveLastToFrontOf returns, every child page that was moved into another
\* internal page has that page as its parent.
C10_MovedChildrenReparented ==
    (call.name \in {"MoveHalfTo", "MoveAllTo", "MoveFirstToEndOf",
                    "MoveLastToFrontOf"}
        /\ status = "ok")
    => \A c \in (ChildrenOf(call.recipient) \ PreChildrenOf(call.recipient))
                  \cap PreChildrenOf(call.this) :
          parent_page_id[c] = call.recipient

\* The keys at slots 1..size-1 of page p are strictly increasing.
Sorted(p) ==
    \A i \in 1 .. (size[p] - 1), j \in 1 .. (size[p] - 1) :
        i < j => array[p][i].first < array[p][j].first

\* The slot of the parent that holds the separator between the siblings.
SeparatorSlot == CHOOSE i \in 0 .. (pre.size[ParentPage] - 1) :
                    pre.array[ParentPage][i].second = RightPage

\* The call moved slots in the direction the method is written for, between
\* the two siblings the parent's separator separates.
WellDirected ==
    \/ call.name = "MoveFirstToEndOf"
         /\ call.this = RightPage /\ call.recipient = LeftPage
    \/ call.name = "MoveAllTo"
         /\ call.this = RightPage /\ call.recipient = LeftPage
         /\ call.index = SeparatorSlot
    \/ call.name = "MoveLastToFrontOf"
         /\ call.this = LeftPage /\ call.recipient = RightPage
         /\ call.index = SeparatorSlot
    \/ call.name = "MoveHalfTo"
         /\ call.this = LeftPage /\ call.recipient = RightPage
         /\ pre.size[RightPage] = 1

\* C11 (as claimed): after any call of PopulateNewRoot, InsertNodeAfter,
\* Remove, RemoveAndReturnOnlyChild, MoveHalfTo, MoveAllTo, MoveFirstToEndOf
\* or MoveLastToFrontOf that returns normally, every internal page has
\* 1 <= size <= max_size.
C11_SizeWithinBounds ==
    (call.name \in {"PopulateNewRoot", "InsertNodeAfter", "Remove",
                    "RemoveAndReturnOnlyChild", "MoveHalfTo", "MoveAllTo",
                    "MoveFirstToEndOf", "MoveLastToFrontOf"}
        /\ status = "ok")
    => \A p \in InternalPages : 1 <= size[p] /\ size[p] <= MaxSize

\* C12 (as claimed): when the keys of every page were strictly increasing
\* and siblings and separator consistently ordered, they are still strictly
\* increasing on every page after Remove, MoveHalfTo, MoveAllTo,
\* MoveFirstToEndOf or MoveLastToFrontOf returns.
C12_KeyOrderPreserved ==
    (status = "ok"
        /\ (call.name = "Remove" \/ WellDirected)
        /\ \A p \in InternalPages : PreSorted(p))
    => \A p \in InternalPages : Sorted(p)

\* The slots of the parent whose key the call changed.
ParentKeysChanged ==
    {i \in 0 .. (pre.size[ParentPage] - 1) :
        array[ParentPage][i].first # pre.array[ParentPage][i].first}

\* C13: a redistribution call (MoveFirstToEndOf from the right sibling to the
\* left, MoveLastToFrontOf from the left to the right with the separator's
\* index) on a donor of size > 1 decreases the donor's size by one, increases
\* the recipient's size by one and changes exactly one key of the parent, the
\* separator between the siblings; the parent's size, its child pointers and
\* its other keys are unchanged.
C13_RedistributeFrame ==
    (call.name \in {"MoveFirstToEndOf", "MoveLastToFrontOf"}
        /\ status = "ok" /\ WellDirected /\ pre.size[call.this] > 1)
    => /\ size[call.this] = pre.size[call.this] - 1
       /\ size[call.recipient] = pre.size[call.recipient] + 1
       /\ size[ParentPage] = pre.size[ParentPage]
       /\ \A i \in Slots :
             array[ParentPage][i].second = pre.array[ParentPage][i].second
       /\ \A i \in Slots \ {SeparatorSlot} :
             array[ParentPage][i].first = pre.array[ParentPage][i].first
       /\ ParentKeysChanged = {SeparatorSlot}

\* The right sibling gave its first slot to the left one and the separator
\* became the right sibling's former first key.
C13_Witness ==
    /\ Returned("MoveFirstToEndOf")
    /\ WellDirected
    /\ pre.size[call.this] >= 3
    /\ size[call.recipient] = pre.size[call.recipient] + 1
    /\ array[ParentPage][SeparatorSlot].first = pre.array[call.this][1].first

\* C14: PopulateNewRoot(old_child, new_key, new_child) on a page of size 1
\* yields a page of size 2 with slot 0's child old_child and slot 1
\* (new_key, new_child), on which Lookup(k) returns old_child for every
\* k < new_key and new_child for every k >= new_key.
C14_PopulateNewRootDirects ==
    (call.name = "PopulateNewRoot" /\ pre.size[call.this] = 1)
    => LET p == call.this IN
       /\ status = "ok"
       /\ size[p] = 2
       /\ array[p][0].second = call.old_value
       /\ array[p][1] = [first |-> call.key, second |-> call.value]
       /\ \A k \in SearchKeys :
             /\ Lookup(Cur, p, k).status = "ok"
             /\ Lookup(Cur, p, k).ret =
                   IF k < call.key THEN call.old_value ELSE call.value

\* A new root over two different children, with search keys on both sides of
\* its key.
C14_Witness ==
    /\ Returned("PopulateNewRoot")
    /\ call.old_value # call.value
    /\ call.key > 1 /\ call.key < NumKeys
    /\ Lookup(Cur, call.this, call.key - 1).ret = call.old_value
    /\ Lookup(Cur, call.this, call.key).ret = call.value

\* The last pair the page was built from whose key is not above key.
GreatestBuilt(key) ==
    CHOOSE g \in 1 .. Len(built) :
        /\ built[g].first <= key
        /\ \A h \in 1 .. Len(built) : built[h].first <= key => h <= g

\* C15: on a page built by PopulateNewRoot and then InsertNodeAfter calls
\* that each append a key larger than all keys present after the child of
\* the last slot, within max_size, Lookup(k) returns the child that was
\* inserted together with the greatest key <= k.
C15_LookupAfterBuild ==
    (call.name = "Lookup" /\ call.this = ParentPage /\ built # <<>>
        /\ built[1].first <= call.key)
    => /\ status = "ok"
       /\ ret = built[GreatestBuilt(call.key)].second

\* Three keys inserted in order; a search key strictly between the second
\* and the third returns the child inserted with the second.
C15_Witness ==
    /\ Returned("Lookup")
    /\ call.this = ParentPage
    /\ Len(built) = 3
    /\ built[2].first < call.key /\ call.key < built[3].first
    /\ built[2].second # built[3].second
    /\ ret = built[2].second

\* The call violated the precondition its method asserts.
PreconditionViolated ==
    \/ /\ call.name \in {"KeyAt", "SetKeyAt", "ValueAt", "Remove"}
       /\ ~(0 <= call.index /\ call.index < pre.size[call.this])
    \/ /\ call.name = "PopulateNewRoot"
       /\ pre.size[call.this] # 1
    \/ /\ call.name = "Lookup"
       /\ pre.size[call.this] <= 1

\* C16: KeyAt, SetKeyAt, ValueAt and Remove with an index outside
\* [0, size), PopulateNewRoot on a page whose size is not 1 and Lookup on a
\* page of size <= 1 are stopped by an assertion, with the size and the slot
\* array of every page as they were.
C16_PreconditionsAsserted ==
    PreconditionViolated
    => /\ status = "assert"
       /\ size = pre.size
       /\ array = pre.array

\* Remove called with index = size on a page that holds several slots.
C16_Witness ==
    /\ call.name = "Remove"
    /\ call.index = pre.size[call.this]
    /\ pre.size[call.this] >= 3
    /\ status = "assert"
    /\ size[call.this] = pre.size[call.this]

\* C17: donor.MoveLastToFrontOf(recipient, parent_index), the recipient being
\* the right-hand sibling with distinct child pointers, removes exactly the
\* donor's last slot (k_last, c_last), makes c_last the recipient's slot-0
\* child, makes the recipient's slot 1 the pair (parent's former key at
\* parent_index, recipient's former slot-0 child), shifts the recipient's
\* former slots 1.. right by one and sets the parent's key at parent_index
\* to k_last.
C17_MoveLastToFrontOfContract ==
    (Returned("MoveLastToFrontOf")
        /\ call.this = LeftPage /\ call.recipient = RightPage
        /\ Cardinality(PreChildrenOf(RightPage)) = pre.size[RightPage])
    => LET d == call.this
           r == call.recipient
           n == pre.size[d]
           m == pre.size[r]
           last == pre.array[d][n - 1]
       IN  /\ size[d] = n - 1
           /\ \A i \in 0 .. (n - 2) : array[d][i] = pre.array[d][i]
           /\ size[r] = m + 1
           /\ array[r][0].second = last.second
           /\ array[r][1] = [first |-> pre.array[ParentPage][call.index].first,
                             second |-> pre.array[r][0].second]
           /\ \A i \in 1 .. (m - 1) : array[r][i + 1] = pre.array[r][i]
           /\ array[ParentPage][call.index].first = last.first

\* The left sibling of three or more slots gave its last slot to a right
\* sibling that already held keys, through the separator's slot.
C17_Witness ==
    /\ Returned("MoveLastToFrontOf")
    /\ call.this = LeftPage /\ call.recipient = RightPage
    /\ call.index = SeparatorSlot
    /\ pre.size[LeftPage] >= 3 /\ pre.size[RightPage] >= 2
    /\ array[RightPage][0].second = pre.array[LeftPage][pre.size[LeftPage] - 1].second
    /\ array[RightPage][2] = pre.array[RightPage][1]

\* How many slots of the two siblings hold child c, now and before the call.
ChildCount(c) ==
    Cardinality({ps \in Siblings \X Slots :
                    ps[2] < size[ps[1]] /\ array[ps[1]][ps[2]].second = c})
PreChildCount(c) ==
    Cardinality({ps \in Siblings \X Slots :
                    ps[2] < pre.size[ps[1]]
                    /\ pre.array[ps[1]][ps[2]].second = c})

\* C18 (as claimed): MoveFirstToEndOf appends the donor's former slot-0
\* child to the left-hand recipient, leaves the donor with its former
\* children 1..size-1 in order, and donor and recipient together hold the
\* same multiset of child pointers as before.
C18_MoveFirstKeepsChildren ==
    (Returned("MoveFirstToEndOf")
        /\ call.this = RightPage /\ call.recipient = LeftPage)
    => LET d == call.this
           r == call.recipient
       IN  /\ array[r][pre.size[r]].second = pre.array[d][0].second
           /\ \A i \in 0 .. (size[d] - 1) :
                 array[d][i].second = pre.array[d][i + 1].second
           /\ \A c \in PageIds : ChildCount(c) = PreChildCount(c)

\* C19 (as claimed): after MoveAllTo returns, every child pointer the
\* merged-away page held in slots 0..size-1, its slot-0 child included, is
\* held by the recipient.
C19_MergeKeepsChildren ==
    (Returned("MoveAllTo")
        /\ call.this = RightPage /\ call.recipient = LeftPage)
    => PreChildrenOf(call.this) \subseteq ChildrenOf(call.recipient)

\* C20 (as claimed): when RemoveAndReturnOnlyChild returns normally, the
\* page held exactly one child pointer in slots [0, size) before the call
\* and that pointer is the value returned.
C20_ReturnsOnlyChild ==
    Returned("RemoveAndReturnOnlyChild")
    => /\ Cardinality(PreChildrenOf(call.this)) = 1
       /\ pre.size[call.this] = 1
       /\ ret = pre.array[call.this][0].second

====
